---- MODULE Spec2Model ----
(***************************************************************************)
(* Model of create-icon.py: a script that creates a 180x180 canvas, loads  *)
(* a TrueType font (falling back to the built-in font), measures the       *)
(* letter 'n', computes a draw position, draws the letter, saves the image *)
(* as a PNG to a fixed path and prints a confirmation line.                *)
(*                                                                         *)
(* The script is modelled statement by statement (pc is the position in    *)
(* the module body).  The file system, the environment of a run (is the    *)
(* font loadable, is the path writable, how much can be written before the *)
(* disk is full), repeated runs of the script and a concurrent reader of   *)
(* the output path are modelled around it.                                 *)
(***************************************************************************)
EXTENDS Integers, Sequences, FiniteSets

VARIABLES
    pc,            \* position in the module body
    img,           \* the canvas (img)
    font,          \* the resolved font (font)
    bbox,          \* bbox
    text_width,    \* text_width
    text_height,   \* text_height
    position,      \* position
    files,         \* directory entries of the file system
    created,       \* Image.save: the file did not exist before it was opened
    written,       \* Image.save: number of chunks written to the open file
    stdout,        \* lines printed by the current run
    run,           \* number of the current run
    env,           \* environment of the current run
    metrics,       \* bounding box of 'n' at origin (0, 0), per font
    fontLoadFailed,\* history: the try block of the font load raised
    failedAt,      \* history: step whose exception ended the run
    steps,         \* history: steps executed by the current run
    mutations,     \* history: number of mutations of the canvas
    measuredWith,  \* history: font passed to textbbox
    before,        \* history: content of the output path when save began
    outcomes,      \* history: one record per finished run
    reader         \* last observation of a concurrent reader

vars == <<pc, img, font, bbox, text_width, text_height, position, files,
          created, written, stdout, run, env, metrics, fontLoadFailed,
          failedAt, steps, mutations, measuredWith, before, outcomes, reader>>

(***************************************************************************)
(* Bounds of the model.                                                    *)
(***************************************************************************)
MaxRuns == 2      \* runs of the script against the same path
MaxOff == 1       \* left/top of a measured bounding box ranges over 0..MaxOff
MaxDelta == 2     \* text width/height ranges over Size-MaxDelta..Size+MaxDelta
NIdat == 1        \* number of data chunks of the encoded image

(***************************************************************************)
(* Constants of the script.                                                *)
(***************************************************************************)
Size == 180
Background == "#00D4FF"
Fill == "black"
Text == "n"
OutputPath == "/home/sol/n0de-deploy/frontend/public/apple-touch-icon.png"
BackupPath == "/home/sol/n0de-deploy/frontend/public/apple-touch-icon.png.bak"
Fonts == {"truetype", "default"}

NoBox == <<>>
NoFile == <<[type |-> "ENOENT", seq |-> 0, width |-> 0, height |-> 0,
             bg |-> "", glyph |-> [font |-> "none", box |-> NoBox, fill |-> ""]]>>
NoGlyph == [font |-> "none", box |-> NoBox, fill |-> ""]
NoImg == [width |-> 0, height |-> 0, bg |-> "", glyph |-> NoGlyph]

(***************************************************************************)
(* Python's // on integers: rounds toward negative infinity.               *)
(***************************************************************************)
TruncDiv(a, b) ==
    IF a >= 0 THEN a \div b ELSE -((-a) \div b)

FloorDiv(a, b) ==
    IF a >= 0 THEN a \div b ELSE -(((-a) + b - 1) \div b)

(***************************************************************************)
(* Pillow: Image.new(mode, size, color).                                   *)
(***************************************************************************)
ImageNew(w, h, color) ==
    [width |-> w, height |-> h, bg |-> color, glyph |-> NoGlyph]

(***************************************************************************)
(* Pillow: draw.textbbox(xy, text, font=f).  The box of the text anchored  *)
(* at xy: the font's box at the origin, translated by xy.                  *)
(***************************************************************************)
textbbox(xy, f) ==
    LET m == metrics[f]
    IN  <<xy[1] + m[1], xy[2] + m[2], xy[1] + m[3], xy[2] + m[4]>>

(***************************************************************************)
(* Pillow: draw.text(pos, text, fill, font=f) on image im.  The text is    *)
(* anchored at pos exactly as textbbox anchors it; the canvas keeps its    *)
(* size (pixels outside it are clipped).                                   *)
(***************************************************************************)
DrawTextGrow(im, pos, f) ==
    LET b == textbbox(pos, f)
    IN  [im EXCEPT !.glyph = [font |-> f, box |-> b, fill |-> Fill],
                   !.width = IF b[3] > @ THEN b[3] ELSE @,
                   !.height = IF b[4] > @ THEN b[4] ELSE @]

DrawTextDefaultFont(im, pos, f) ==
    [im EXCEPT !.glyph = [font |-> "default", box |-> textbbox(pos, "default"),
                          fill |-> Fill]]

DrawTextOn(im, pos, f) ==
    [im EXCEPT !.glyph = [font |-> f, box |-> textbbox(pos, f), fill |-> Fill]]

(***************************************************************************)
(* PNG encoding of an image: a header chunk with the dimensions, NIdat     *)
(* data chunks with the pixels, an end chunk.  A file is a sequence of     *)
(* chunks; a file cut short is a proper prefix of an encoding.             *)
(***************************************************************************)
Chunk(t, k, im) ==
    [type |-> t, seq |-> k,
     width |-> IF t = "IHDR" THEN im.width ELSE 0,
     height |-> IF t = "IHDR" THEN im.height ELSE 0,
     bg |-> IF t = "IDAT" THEN im.bg ELSE "",
     glyph |-> IF t = "IDAT" THEN im.glyph ELSE NoGlyph]

TotalChunks == NIdat + 2

Encode(im) ==
    [k \in 1..TotalChunks |->
        IF k = 1 THEN Chunk("IHDR", 0, im)
        ELSE IF k = TotalChunks THEN Chunk("IEND", 0, im)
        ELSE Chunk("IDAT", k - 1, im)]

Complete(bytes) ==
    /\ bytes # NoFile
    /\ Len(bytes) >= 2
    /\ bytes[1].type = "IHDR"
    /\ bytes[Len(bytes)].type = "IEND"

Partial(bytes) ==
    /\ bytes # NoFile
    /\ ~Complete(bytes)

Dimensions(bytes) == <<bytes[1].width, bytes[1].height>>

(***************************************************************************)
(* File system: a set of directory entries.                                *)
(***************************************************************************)
Exists(fs, name) == \E e \in fs : e.name = name

Content(fs, name) ==
    IF Exists(fs, name) THEN (CHOOSE e \in fs : e.name = name).bytes ELSE NoFile

Remove(fs, name) == {e \in fs : e.name # name}

\* builtins.open(name, "w+b"): create the file or truncate it to length 0
OpenBackup(fs, name) ==
    {e \in Remove(fs, BackupPath) : e.name # name}
      \cup {[name |-> BackupPath, bytes |-> e.bytes] : e \in {x \in fs : x.name = name}}
      \cup {[name |-> name, bytes |-> <<>>]}

OpenNoTrunc(fs, name) ==
    IF Exists(fs, name) THEN fs ELSE fs \cup {[name |-> name, bytes |-> <<>>]}

OpenTrunc(fs, name) ==
    Remove(fs, name) \cup {[name |-> name, bytes |-> <<>>]}

\* fp.write(chunk) on the open file
WriteChunk(fs, name, c) ==
    {IF e.name = name THEN [e EXCEPT !.bytes = Append(@, c)] ELSE e : e \in fs}

(***************************************************************************)
(* Environments and font metrics the model ranges over.                    *)
(***************************************************************************)
Envs == [fontOK : BOOLEAN, writable : BOOLEAN, diskFree : 0..TotalChunks]

Box(x0, y0, w, h) == <<x0, y0, x0 + w, y0 + h>>

Offsets == 0..MaxOff
Dims == (Size - MaxDelta)..(Size + MaxDelta)

BBoxes == {Box(x0, y0, w, h) : x0 \in Offsets, y0 \in Offsets, w \in Dims, h \in Dims}

CornerBoxes == {Box(o, o, d, d) : o \in {0, MaxOff}, d \in {Size - MaxDelta, Size + MaxDelta}}

\* a file left at the output path by an earlier program: a blank icon
OldIcon == Encode(ImageNew(Size, Size, Background))

Line(path) == <<"Apple touch icon created at ", path>>

NoObservation == [seen |-> NoFile, during |-> FALSE, prev |-> NoFile, new |-> NoFile]

(***************************************************************************)
(* Initial states: the first run is about to start.                        *)
(***************************************************************************)
InitRun ==
    /\ pc = "start"
    /\ img = NoImg
    /\ font = "none"
    /\ bbox = NoBox
    /\ text_width = 0
    /\ text_height = 0
    /\ position = NoBox
    /\ created = FALSE
    /\ written = 0
    /\ stdout = <<>>
    /\ run = 1
    /\ env \in Envs
    /\ fontLoadFailed = FALSE
    /\ failedAt = "none"
    /\ steps = <<>>
    /\ mutations = 0
    /\ measuredWith = "none"
    /\ before = NoFile
    /\ outcomes = <<>>
    /\ reader = NoObservation

Init ==
    /\ InitRun
    /\ metrics \in [Fonts -> CornerBoxes]
    /\ files \in {{}, {[name |-> OutputPath, bytes |-> OldIcon]}}

InitGeom ==
    /\ InitRun
    /\ metrics \in {[f \in Fonts |-> b] : b \in BBoxes}
    /\ files = {}

(***************************************************************************)
(* The run ends with an unhandled exception raised by step s.              *)
(***************************************************************************)
Raise(s) ==
    /\ pc' = "failed"
    /\ failedAt' = s
    /\ outcomes' = Append(outcomes, [ok |-> FALSE, img |-> img])

(***************************************************************************)
(* img = Image.new('RGB', (180, 180), '#00D4FF'); draw = ImageDraw.Draw(img)*)
(***************************************************************************)
CreateCanvas ==
    /\ pc = "start"
    /\ img' = ImageNew(Size, Size, Background)
    /\ steps' = Append(steps, "create")
    /\ pc' = "font"
    /\ UNCHANGED <<font, bbox, text_width, text_height, position, files,
                   created, written, stdout, run, env, metrics, fontLoadFailed,
                   failedAt, mutations, measuredWith, before, outcomes, reader>>

(***************************************************************************)
(* try: font = ImageFont.truetype(...)  except: font = load_default()      *)
(***************************************************************************)
LoadFontOK ==
    /\ pc = "font"
    /\ env.fontOK
    /\ font' = "truetype"
    /\ steps' = Append(steps, "font")
    /\ pc' = "bbox"
    /\ UNCHANGED <<img, bbox, text_width, text_height, position, files,
                   created, written, stdout, run, env, metrics, fontLoadFailed,
                   failedAt, mutations, measuredWith, before, outcomes, reader>>

LoadFontFailUncaught ==
    /\ pc = "font"
    /\ ~env.fontOK
    /\ fontLoadFailed' = TRUE
    /\ steps' = Append(steps, "font")
    /\ Raise("font")
    /\ UNCHANGED <<img, font, bbox, text_width, text_height, position, files,
                   created, written, stdout, run, env, metrics,
                   mutations, measuredWith, before, reader>>

LoadFontFail ==
    /\ pc = "font"
    /\ ~env.fontOK
    /\ fontLoadFailed' = TRUE
    /\ font' = "default"
    /\ steps' = Append(steps, "font")
    /\ pc' = "bbox"
    /\ UNCHANGED <<img, bbox, text_width, text_height, position, files,
                   created, written, stdout, run, env, metrics,
                   failedAt, mutations, measuredWith, before, outcomes, reader>>

LoadFont == LoadFontOK \/ LoadFontFail

(***************************************************************************)
(* bbox = draw.textbbox((0, 0), text, font=font)                           *)
(***************************************************************************)
Measure ==
    /\ pc = "bbox"
    /\ bbox' = textbbox(<<0, 0>>, font)
    /\ measuredWith' = font
    /\ steps' = Append(steps, "bbox")
    /\ pc' = "position"
    /\ UNCHANGED <<img, font, text_width, text_height, position, files,
                   created, written, stdout, run, env, metrics, fontLoadFailed,
                   failedAt, mutations, before, outcomes, reader>>

(***************************************************************************)
(* text_width = bbox[2] - bbox[0]; text_height = bbox[3] - bbox[1]         *)
(* position = ((180 - text_width) // 2, (180 - text_height) // 2)          *)
(***************************************************************************)
ComputePosition ==
    /\ pc = "position"
    /\ text_width' = bbox[3] - bbox[1]
    /\ text_height' = bbox[4] - bbox[2]
    /\ position' = <<FloorDiv(180 - text_width', 2), FloorDiv(180 - text_height', 2)>>
    /\ steps' = Append(steps, "position")
    /\ pc' = "draw"
    /\ UNCHANGED <<img, font, bbox, files, created, written, stdout, run, env,
                   metrics, fontLoadFailed, failedAt, mutations, measuredWith,
                   before, outcomes, reader>>

(***************************************************************************)
(* draw.text(position, text, fill='black', font=font)                      *)
(***************************************************************************)
DrawText ==
    /\ pc = "draw"
    /\ img' = DrawTextOn(img, position, font)
    /\ mutations' = mutations + 1
    /\ steps' = Append(steps, "draw")
    /\ pc' = "save"
    /\ UNCHANGED <<font, bbox, text_width, text_height, position, files,
                   created, written, stdout, run, env, metrics, fontLoadFailed,
                   failedAt, measuredWith, before, outcomes, reader>>

(***************************************************************************)
(* img.save(output_path), first half: Image.save notes whether the file    *)
(* exists and opens it with mode "w+b".  An open that fails (permission    *)
(* denied, missing directory) raises and leaves the file system untouched. *)
(***************************************************************************)
SaveOpenOK ==
    /\ pc = "save"
    /\ env.writable
    /\ before' = Content(files, OutputPath)
    /\ created' = ~Exists(files, OutputPath)
    /\ files' = OpenTrunc(files, OutputPath)
    /\ written' = 0
    /\ steps' = Append(steps, "save")
    /\ pc' = "write"
    /\ UNCHANGED <<img, font, bbox, text_width, text_height, position, stdout,
                   run, env, metrics, fontLoadFailed, failedAt, mutations,
                   measuredWith, outcomes, reader>>

SaveOpenFailSwallowed ==
    /\ pc = "save"
    /\ ~env.writable
    /\ before' = Content(files, OutputPath)
    /\ steps' = Append(steps, "save")
    /\ pc' = "print"
    /\ UNCHANGED <<img, font, bbox, text_width, text_height, position, files,
                   created, written, stdout, run, env, metrics, fontLoadFailed,
                   failedAt, mutations, measuredWith, outcomes, reader>>

SaveOpenFail ==
    /\ pc = "save"
    /\ ~env.writable
    /\ before' = Content(files, OutputPath)
    /\ steps' = Append(steps, "save")
    /\ Raise("save")
    /\ UNCHANGED <<img, font, bbox, text_width, text_height, position, files,
                   created, written, stdout, run, env, metrics, fontLoadFailed,
                   mutations, measuredWith, reader>>

SaveOpen == SaveOpenOK \/ SaveOpenFail

(***************************************************************************)
(* img.save(output_path), second half: the encoder writes the chunks to    *)
(* the open file one after the other and the file is closed after the last *)
(* one.  A write that fails (disk full) raises: Image.save closes the      *)
(* file, removes it if this call created it, and re-raises.                *)
(***************************************************************************)
SaveWriteOK ==
    /\ pc = "write"
    /\ written < env.diskFree
    /\ files' = WriteChunk(files, OutputPath, Encode(img)[written + 1])
    /\ written' = written + 1
    /\ pc' = IF written + 1 = TotalChunks THEN "print" ELSE "write"
    /\ UNCHANGED <<img, font, bbox, text_width, text_height, position, created,
                   stdout, run, env, metrics, fontLoadFailed, failedAt, steps,
                   mutations, measuredWith, before, outcomes, reader>>

SaveWriteFailSwallowed ==
    /\ pc = "write"
    /\ written >= env.diskFree
    /\ files' = IF created THEN Remove(files, OutputPath) ELSE files
    /\ pc' = "print"
    /\ UNCHANGED <<img, font, bbox, text_width, text_height, position, created,
                   written, stdout, run, env, metrics, fontLoadFailed, failedAt,
                   steps, mutations, measuredWith, before, outcomes, reader>>

SaveWriteFail ==
    /\ pc = "write"
    /\ written >= env.diskFree
    /\ files' = IF created THEN Remove(files, OutputPath) ELSE files
    /\ Raise("save")
    /\ UNCHANGED <<img, font, bbox, text_width, text_height, position, created,
                   written, stdout, run, env, metrics, fontLoadFailed,
                   steps, mutations, measuredWith, before, reader>>

SaveWrite == SaveWriteOK \/ SaveWriteFail

(***************************************************************************)
(* print(f"Apple touch icon created at {output_path}")                     *)
(***************************************************************************)
PrintLine ==
    /\ pc = "print"
    /\ stdout' = Append(stdout, Line(OutputPath))
    /\ outcomes' = Append(outcomes, [ok |-> TRUE, img |-> img])
    /\ pc' = "done"
    /\ UNCHANGED <<img, font, bbox, text_width, text_height, position, files,
                   created, written, run, env, metrics, fontLoadFailed,
                   failedAt, steps, mutations, measuredWith, before, reader>>

(***************************************************************************)
(* The script is started again after the previous run has ended: a new     *)
(* process with fresh variables, the same file system and fonts.           *)
(***************************************************************************)
StartRun ==
    /\ pc \in {"done", "failed"}
    /\ run < MaxRuns
    /\ run' = run + 1
    /\ env' \in Envs
    /\ pc' = "start"
    /\ img' = NoImg
    /\ font' = "none"
    /\ bbox' = NoBox
    /\ text_width' = 0
    /\ text_height' = 0
    /\ position' = NoBox
    /\ created' = FALSE
    /\ written' = 0
    /\ stdout' = <<>>
    /\ fontLoadFailed' = FALSE
    /\ failedAt' = "none"
    /\ steps' = <<>>
    /\ mutations' = 0
    /\ measuredWith' = "none"
    /\ before' = NoFile
    /\ reader' = NoObservation
    /\ UNCHANGED <<files, metrics, outcomes>>

(***************************************************************************)
(* Another process reads the whole file at the output path.                *)
(***************************************************************************)
Read ==
    /\ reader' = [seen |-> Content(files, OutputPath),
                  during |-> (pc = "write"),
                  prev |-> before,
                  new |-> IF img = NoImg THEN NoFile ELSE Encode(img)]
    /\ reader' # reader
    /\ UNCHANGED <<pc, img, font, bbox, text_width, text_height, position, files,
                   created, written, stdout, run, env, metrics, fontLoadFailed,
                   failedAt, steps, mutations, measuredWith, before, outcomes>>

Script ==
    \/ CreateCanvas
    \/ LoadFont
    \/ Measure
    \/ ComputePosition
    \/ DrawText
    \/ SaveOpen
    \/ SaveWrite
    \/ PrintLine

Next == Script \/ StartRun

Spec == Init /\ [][Next]_vars

NextGeom ==
    \/ CreateCanvas
    \/ LoadFont
    \/ Measure
    \/ ComputePosition
    \/ DrawText

SpecGeom == InitGeom /\ [][NextGeom]_vars

NextShared == Script \/ StartRun \/ Read

SpecShared == Init /\ [][NextShared]_vars

(***************************************************************************)
(* Helpers of the properties.                                              *)
(***************************************************************************)
StepOrder == <<"create", "font", "bbox", "position", "draw", "save">>

Done(s) == \E i \in 1..Len(steps) : steps[i] = s

CanWrite == env.writable /\ env.diskFree >= TotalChunks

AtPath == Content(files, OutputPath)

Abs(n) == IF n < 0 THEN -n ELSE n

\* C1: when the font load fails the run does not fail at that step, it goes
\* on with the default font, and once the write has succeeded the output
\* path holds a complete 180x180 image; a run that did fail failed in save.
C1_FontFallback ==
    fontLoadFailed =>
        /\ failedAt # "font"
        /\ font = "default"
        /\ pc = "failed" => failedAt = "save"
        /\ pc \in {"print", "done"} =>
              /\ Complete(AtPath)
              /\ Dimensions(AtPath) = <<180, 180>>
              /\ AtPath = Encode(img)
              /\ img.glyph.font = "default"

C1_Witness ==
    /\ fontLoadFailed
    /\ pc = "done"
    /\ Complete(AtPath)

\* C2: a run ends in an error only in save and only when the write cannot
\* complete; a write that cannot complete never lets the run go on to the
\* confirmation line.
C2_OnlyWriteFails ==
    /\ pc = "failed" => (failedAt = "save" /\ ~CanWrite /\ Done("draw"))
    /\ pc # "failed" => failedAt = "none"
    /\ pc \in {"print", "done"} => CanWrite

C2_Witness ==
    /\ pc = "failed"
    /\ failedAt = "save"
    /\ ~CanWrite

\* C3: the box of the glyph as drawn is centred in the canvas within one
\* pixel: left and right margins differ by at most 1, and so do the top and
\* bottom margins.
C3_Centered ==
    Done("draw") =>
        LET b == img.glyph.box
        IN  /\ Abs(b[1] - (Size - b[3])) <= 1
            /\ Abs(b[2] - (Size - b[4])) <= 1

\* C4: from its creation on the canvas is 180 wide and 180 high, whatever
\* font and bounding box, and the image this run wrote to the output path
\* has dimensions (180, 180).
C4_Dimensions ==
    /\ Done("create") => (img.width = 180 /\ img.height = 180)
    /\ pc \in {"write", "print", "done"} /\ written >= 1 =>
          Dimensions(AtPath) = <<180, 180>>

C4_Witness ==
    /\ pc = "done"
    /\ Dimensions(AtPath) = <<180, 180>>
    /\ img.glyph.box[3] > Size

\* C5: after two successful runs in a row the directory holds exactly one
\* file, at the output path, and its content is the image of the second
\* run; a run that finds a file at the path fails only if the path is not
\* writable or the disk fills up.
C5_Overwrite ==
    /\ (/\ pc = "done"
        /\ Len(outcomes) >= 2
        /\ outcomes[Len(outcomes) - 1].ok)
       => files = {[name |-> OutputPath,
                    bytes |-> Encode(outcomes[Len(outcomes)].img)]}
    /\ (pc = "failed" /\ before # NoFile) => ~CanWrite

C5_Witness ==
    /\ pc = "done"
    /\ Len(outcomes) >= 2
    /\ outcomes[Len(outcomes) - 1].ok
    /\ outcomes[Len(outcomes) - 1].img # outcomes[Len(outcomes)].img
    /\ AtPath = Encode(img)

\* C6: a run ends either in success with the complete image at the output
\* path, or in failure with no partially written image at the output path.
C6_AllOrNothing ==
    /\ pc = "done" => AtPath = Encode(img)
    /\ pc = "failed" => ~Partial(AtPath)

\* C7: the confirmation line is printed exactly once in a run whose write
\* succeeded, after the write has completed, and never otherwise.
C7_Confirmation ==
    /\ pc = "done" => stdout = <<Line(OutputPath)>>
    /\ pc # "done" => stdout = <<>>
    /\ stdout # <<>> => (written = TotalChunks /\ AtPath = Encode(img) /\ CanWrite)

C7_Witness ==
    /\ pc = "done"
    /\ stdout = <<Line(OutputPath)>>

\* C8: the steps of a run are a prefix of create, font, bbox, position,
\* draw, save; the canvas is created with the background only, is mutated
\* exactly once, by the draw step, before it is saved; the font that
\* measured the box is the font that drew.
C8_StepOrder ==
    /\ Len(steps) <= Len(StepOrder)
    /\ \A i \in 1..Len(steps) : steps[i] = StepOrder[i]
    /\ mutations = IF Done("draw") THEN 1 ELSE 0
    /\ (Done("create") /\ ~Done("draw")) => img = ImageNew(Size, Size, Background)
    /\ Done("draw") => (img.glyph.font = measuredWith /\ measuredWith = font)
    /\ Exists(files, OutputPath) /\ AtPath # before /\ Len(AtPath) >= 2
          /\ pc \in {"write", "print", "done"}
          => (mutations = 1 /\ AtPath[2].glyph = img.glyph)

C8_Witness ==
    /\ pc = "done"
    /\ steps = StepOrder
    /\ mutations = 1
    /\ measuredWith = "truetype"

\* C9: the draw position is (floor((180 - w) / 2), floor((180 - h) / 2))
\* with w and h the width and height of the measured box; it is negative
\* when the glyph is larger than the canvas.
C9_Position ==
    Done("position") =>
        LET w == bbox[3] - bbox[1]
            h == bbox[4] - bbox[2]
        IN  /\ text_width = w
            /\ text_height = h
            /\ 2 * position[1] <= 180 - w
            /\ 180 - w <= 2 * position[1] + 1
            /\ 2 * position[2] <= 180 - h
            /\ 180 - h <= 2 * position[2] + 1
            /\ w > 180 => position[1] < 0
            /\ h > 180 => position[2] < 0

C9_Witness ==
    /\ Done("position")
    /\ text_width = 181
    /\ text_height < 180
    /\ position[1] = -1

\* C10: the file is overwritten in place: what a reader reads while the
\* run is writing is a file cut short, a proper prefix of the new image,
\* and not the complete previous content.
C10_NonAtomic ==
    reader.during =>
        /\ reader.seen # NoFile
        /\ Len(reader.seen) < TotalChunks
        /\ \A i \in 1..Len(reader.seen) : reader.seen[i] = reader.new[i]
        /\ ~Complete(reader.seen)
        /\ reader.seen # reader.new
        /\ Complete(reader.prev) => reader.seen # reader.prev

C10_Witness ==
    /\ reader.during
    /\ Complete(reader.prev)
    /\ Len(reader.seen) >= 1
    /\ Partial(reader.seen)

====
